---- MODULE Spec2Model ----
(***************************************************************************)
(* Model of obs_prayer_switcher.py: the daily cycle schedule_today, the    *)
(* APScheduler job store it mutates, the firing of date jobs and of the    *)
(* two cron triggers, and the OBS scene the jobs switch.                   *)
(*                                                                         *)
(* Time is the wall clock in whole minutes since 00:00 of day 0.  Every    *)
(* run_date the program creates is minute-aligned (H:MM of a date), so a   *)
(* clock value c stands for any instant in [c, c+1): a run_date r is       *)
(* "> now" exactly when r > c.                                             *)
(***************************************************************************)
EXTENDS Integers, Sequences, FiniteSets, TLC

\* ---- bounds of the model ------------------------------------------------
\* number of runs of schedule_today (the startup run and the cron-triggered
\* ones) after which the cron triggers are no longer followed
MaxCycles == 3
\* how many minute boundaries one scrape can cross (goto timeout 30 s +
\* wait_for_timeout 10 s + browser launch)
MaxScrapeMinutes == 1

\* ---- program constants --------------------------------------------------
SCENE_DEFAULT == "The Masjid App View"
SCENE_PRAYER == "PTZ Camera & Masjid App"
PRAYER_DURATION_MINUTES == 10
JUMUAH_START == <<13, 25>>
JUMUAH_END == <<14, 15>>
PRAYER_NAMES == <<"Fajr", "Dhuhr", "Asr", "Maghrib", "Isha">>
FRIDAY == 4
DAILY_REFRESH == <<0, 5>>
MIDDAY_REFRESH == <<12, 0>>

MinutesPerDay == 24 * 60

\* ---- inputs the environment can supply ----------------------------------
\* "HH:MM" strings are pairs <<h, m>>; the code splits them on ":".
TimeChoices == {<<12, 0>>, <<12, 1>>}
\* the names the scrape reports: two of PRAYER_NAMES, Dhuhr among them
ScrapeNames == {"Fajr", "Dhuhr"}
\* dicts the scrape can return: any subset of the names, each with a time
ScrapeResults == UNION {[S -> TimeChoices] : S \in SUBSET ScrapeNames}
\* the operator-maintained dict of get_manual_iqama_times (empty as shipped)
EmptyDict == [p \in {} |-> <<0, 0>>]
ManualChoices == {EmptyDict, [p \in {"Dhuhr", "Isha"} |-> <<13, 30>>]}
\* wall-clock times of day 0 at which the process is started
StartClocks == {5 * 60, 11 * 60 + 55, 13 * 60 + 30}
\* weekday of day 0 (Monday = 0): Thursday or Friday
StartWeekdays == {3, 4}

VARIABLES
    clock,          \* wall clock, minutes since 00:00 of day 0
    weekday0,       \* weekday of day 0
    manual,         \* dict returned by get_manual_iqama_times
    jobs,           \* the scheduler's job store
    inflight,       \* date jobs handed to the executor, their callable not yet run
    started,        \* scheduler.start() has been called
    run,            \* position and locals of main / schedule_today
    scene,          \* current program scene of OBS
    gen,            \* number of daily cycles begun (generation tag)
    firelog,        \* date jobs fired since the last cycle began
    pendingAtStart, \* date jobs pending when the last cycle began
    sceneAtStart,   \* scene when the last cycle began
    firedAtStart,   \* ids of the date jobs the previous generation had fired by then
    cyc,            \* report of the last completed run of schedule_today
    actFailed,      \* some switch_scene call has failed
    owed,           \* restore deadlines of the enters fired since the scene was last
                    \* default, followed as long as no switch_scene call has failed
    conv            \* one call of convert_to_24h: its argument and its result

vars == <<clock, weekday0, manual, jobs, inflight, started, run, scene, gen, firelog,
          pendingAtStart, sceneAtStart, firedAtStart, cyc, actFailed, owed, conv>>

\* ---- dates and times ----------------------------------------------------
Minutes(hm) == hm[1] * 60 + hm[2]
DateOf(t) == t \div MinutesPerDay
\* datetime.combine(today, time(h, m))
DateTime(day, hm) == day * MinutesPerDay + Minutes(hm)
\* today.weekday()
Weekday(day) == (weekday0 + day) % 7
IsFriday(day) == Weekday(day) = FRIDAY
Min(S) == CHOOSE x \in S : \A y \in S : x <= y
\* CronTrigger.get_next_fire_time: the first hm strictly after t
NextCron(hm, t) ==
    IF DateTime(DateOf(t), hm) > t THEN DateTime(DateOf(t), hm)
    ELSE DateTime(DateOf(t) + 1, hm)

\* ---- job store ----------------------------------------------------------
\* A job id "prayer_start_Fajr" is the sequence of its "_"-separated parts.
\* add_job without id=: the store gives the job a fresh id no prefix matches
DateJob_AutoId(id, t, f, g) ==
    [id |-> <<"auto", id[2], id[Len(id)], g>>, trigger |-> "date", run |-> t,
     func |-> f, gen |-> g, hm |-> <<>>]
DateJob(id, t, f, g) ==
    [id |-> id, trigger |-> "date", run |-> t, func |-> f, gen |-> g, hm |-> <<>>]
\* a cron job has no next run time (-1) until the scheduler is started
CronJob(id, hm) ==
    [id |-> id, trigger |-> "cron", run |-> -1, func |-> "schedule_today", gen |-> 0, hm |-> hm]
\* job.id.startswith("prayer_") or job.id.startswith("jumuah_")
IsPrayerJob(j) == j.id[1] = "prayer" \/ j.id[1] = "jumuah"
\* scheduler.add_job(..., replace_existing=True)
AddJob(js, j) == {x \in js : x.id # j.id} \cup {j}
\* the clear without the prefix test: every job of the store is removed
ClearPrayerJobs_All(js) == {}
\* lines 199-202: remove the previously scheduled prayer jobs
ClearPrayerJobs(js) == {j \in js : ~IsPrayerJob(j)}
\* a run of add_job calls whose ids are pairwise distinct
AddJobs(js, new) == {x \in js : \A n \in new : n.id # x.id} \cup new

\* ---- schedule_today: pure parts ------------------------------------------
Put(d, k, v) == [x \in DOMAIN d \cup {k} |-> IF x = k THEN v ELSE d[x]]
\* lines 208-212: for prayer in PRAYER_NAMES: fill the gaps from manual_times
RECURSIVE MergeFrom(_, _, _)
MergeFrom(i, iqama_times, manual_times) ==
    IF i > Len(PRAYER_NAMES) THEN iqama_times
    ELSE LET prayer == PRAYER_NAMES[i] IN
         MergeFrom(i + 1,
                   IF prayer \notin DOMAIN iqama_times /\ prayer \in DOMAIN manual_times
                   THEN Put(iqama_times, prayer, manual_times[prayer])
                   ELSE iqama_times,
                   manual_times)
\* the merge with the priority reversed: a manual time overwrites a scraped one
Merge_ManualWins(scraped, manual_times) ==
    [p \in DOMAIN scraped \cup DOMAIN manual_times |->
        IF p \in DOMAIN manual_times THEN manual_times[p] ELSE scraped[p]]
Merge(scraped, manual_times) == MergeFrom(1, scraped, manual_times)

\* one prayer's pair of jobs (lines 232-245)
PrayerPair(prayer, prayer_dt, back_dt, g) ==
    {DateJob(<<"prayer", "start", prayer>>, prayer_dt, "switch_to_prayer", g),
     DateJob(<<"prayer", "end", prayer>>, back_dt, "switch_to_default", g)}

\* the loop without the Friday skip of Dhuhr
PrayerJobs_NoSkip(today, is_friday, now, iqama_times, g) ==
    UNION {
        LET prayer_dt == DateTime(today, iqama_times[prayer])
        IN  IF prayer_dt > now
            THEN PrayerPair(prayer, prayer_dt, prayer_dt + PRAYER_DURATION_MINUTES, g)
            ELSE {}
        : prayer \in DOMAIN iqama_times}
\* the loop with ">=" for ">": an event at now is still scheduled
PrayerJobs_AtNow(today, is_friday, now, iqama_times, g) ==
    UNION {
        LET prayer_dt == DateTime(today, iqama_times[prayer])
        IN  IF is_friday /\ prayer = "Dhuhr" THEN {}
            ELSE IF prayer_dt >= now
            THEN PrayerPair(prayer, prayer_dt, prayer_dt + PRAYER_DURATION_MINUTES, g)
            ELSE {}
        : prayer \in DOMAIN iqama_times}
\* the loop with the second add_job (the restore) missing
PrayerJobs_StartOnly(today, is_friday, now, iqama_times, g) ==
    UNION {
        LET prayer_dt == DateTime(today, iqama_times[prayer])
        IN  IF is_friday /\ prayer = "Dhuhr" THEN {}
            ELSE IF prayer_dt > now
            THEN {DateJob(<<"prayer", "start", prayer>>, prayer_dt, "switch_to_prayer", g)}
            ELSE {}
        : prayer \in DOMAIN iqama_times}
\* lines 220-248: the jobs the loop over iqama_times.items() adds
PrayerJobs(today, is_friday, now, iqama_times, g) ==
    UNION {
        LET prayer_dt == DateTime(today, iqama_times[prayer])
            back_dt == prayer_dt + PRAYER_DURATION_MINUTES
        IN  IF is_friday /\ prayer = "Dhuhr" THEN {}
            ELSE IF prayer_dt > now
            THEN PrayerPair(prayer, prayer_dt, back_dt, g)
            ELSE {}
        : prayer \in DOMAIN iqama_times}

\* lines 250-272: the Friday Jumu'ah override
JumuahJobs(today, is_friday, now, g) ==
    LET jumuah_start_dt == DateTime(today, JUMUAH_START)
        jumuah_end_dt == DateTime(today, JUMUAH_END)
    IN  IF is_friday /\ jumuah_start_dt > now
        THEN {DateJob(<<"jumuah", "start">>, jumuah_start_dt, "switch_to_prayer", g),
              DateJob(<<"jumuah", "end">>, jumuah_end_dt, "switch_to_default", g)}
        ELSE {}

\* line 214: "if not iqama_times: ... return"
NoTimes(iqama_times) == DOMAIN iqama_times = {}

\* everything lines 214-272 install for one candidate mapping
Installed(today, is_friday, now, iqama_times, g) ==
    IF NoTimes(iqama_times) THEN {}
    ELSE PrayerJobs(today, is_friday, now, iqama_times, g)
         \cup JumuahJobs(today, is_friday, now, g)

\* lines 71-82: switch_scene; ok = the OBS request succeeded
SwitchScene(cur, scene_name, ok) == IF ok THEN scene_name ELSE cur
\* the scene a job function asks for (switch_to_prayer / switch_to_default)
SceneOf(func) == IF func = "switch_to_prayer" THEN SCENE_PRAYER ELSE SCENE_DEFAULT

\* "no iqama times" raised as an exception instead of logged
ReturnPc_Raise(iqama_times) == IF NoTimes(iqama_times) THEN "crashed" ELSE "idle"
\* line 216 / line 277: schedule_today returns to its caller in either case
ReturnPc(iqama_times) == "idle"

\* the time by which the window a fired enter job opened has to be closed
Deadline(j) ==
    IF j.id[1] = "jumuah" THEN DateTime(DateOf(j.run), JUMUAH_END)
    ELSE j.run + PRAYER_DURATION_MINUTES

\* the times of day `today` at which a cycle with these inputs opens a window
WindowStarts(today, is_friday, iqama_times) ==
    {DateTime(today, iqama_times[p]) : p \in DOMAIN iqama_times}
    \cup (IF is_friday THEN {DateTime(today, JUMUAH_START)} ELSE {})

\* ---- convert_to_24h (lines 154-167) -------------------------------------
\* A text is the sequence of its characters.
DigitChars == <<"0", "1", "2", "3", "4", "5", "6", "7", "8", "9">>
IsDigit(c) == \E i \in 1..Len(DigitChars) : DigitChars[i] = c
\* int() of one digit, of a digit string
DigitVal(c) == (CHOOSE i \in 1..Len(DigitChars) : DigitChars[i] = c) - 1
RECURSIVE IntOf(_)
IntOf(ds) ==
    IF ds = <<>> THEN 0
    ELSE IntOf(SubSeq(ds, 1, Len(ds) - 1)) * 10 + DigitVal(ds[Len(ds)])
\* f"{n:02d}" for 0 <= n <= 99
Pad2(n) == <<DigitChars[(n \div 10) + 1], DigitChars[(n % 10) + 1]>>
\* the alternatives of the group (AM|PM|am|pm)
Markers == {<<"A", "M">>, <<"P", "M">>, <<"a", "m">>, <<"p", "m">>}
\* .upper() of a marker
Upper(mk) == IF mk[1] = "A" \/ mk[1] = "a" THEN <<"A", "M">> ELSE <<"P", "M">>
\* line 156: .replace("\n", "").replace(" ", "").strip()
RemoveBlanks(txt) == SelectSeq(txt, LAMBDA c : c # " " /\ c # "\n")
\* the value None
NoValue == <<"None">>
\* line 157: re.match(r"(\d{1,2}):(\d{2})\s*(AM|PM|am|pm)", time_str): anchored
\* at the start only; the groups, or NoValue when there is no match
Match(str) ==
    LET n == Len(str)
        hl == IF n >= 2 /\ IsDigit(str[1]) /\ str[2] = ":" THEN 1
              ELSE IF n >= 3 /\ IsDigit(str[1]) /\ IsDigit(str[2]) /\ str[3] = ":" THEN 2
              ELSE 0
    IN  IF hl = 0 THEN NoValue
        ELSE IF /\ n >= hl + 5
                /\ IsDigit(str[hl + 2]) /\ IsDigit(str[hl + 3])
                /\ SubSeq(str, hl + 4, hl + 5) \in Markers
             THEN <<SubSeq(str, 1, hl), SubSeq(str, hl + 2, hl + 3),
                    SubSeq(str, hl + 4, hl + 5)>>
             ELSE NoValue
convert_to_24h(time_str) ==
    LET match == Match(RemoveBlanks(time_str))
    IN  IF match = NoValue THEN NoValue
        ELSE LET h0 == IntOf(match[1])
                 m == IntOf(match[2])
                 ampm == Upper(match[3])
                 h == IF ampm = <<"P", "M">> /\ h0 # 12 THEN h0 + 12
                      ELSE IF ampm = <<"A", "M">> /\ h0 = 12 THEN 0
                      ELSE h0
             IN  IF 0 <= h /\ h <= 23 /\ 0 <= m /\ m <= 59
                 THEN Pad2(h) \o <<":">> \o Pad2(m)
                 ELSE NoValue

\* texts handed to convert_to_24h: hour digits, a separator, minute digits,
\* an optional blank, a marker and optional trailing text
HourTexts == UNION {[1..n -> {"0", "1", "2", "3"}] : n \in {0, 1, 2, 3}}
MinuteTexts == UNION {[1..n -> {"0", "5", "6"}] : n \in {1, 2, 3}}
Separators == {<<":">>, <<".">>}
Blanks == {<<>>, <<" ">>}
MarkerTexts == Markers \cup {<<>>, <<"A", "m">>}
Trailers == {<<>>, <<"x">>}
Calls ==
    {[pc |-> "call", out |-> <<>>,
      text |-> h \o sep \o m \o b \o mk \o tr,
      parts |-> [h |-> h, sep |-> sep, m |-> m, marker |-> mk, trail |-> tr]] :
        h \in HourTexts, sep \in Separators, m \in MinuteTexts, b \in Blanks,
        mk \in MarkerTexts, tr \in Trailers}

\* no call of convert_to_24h is modelled in the scheduling specification
NoCall == [pc |-> "none", out |-> <<>>, text |-> <<>>]

\* ---- state machine -----------------------------------------------------
NoCycle ==
    [n |-> 0, today |-> 0, friday |-> FALSE, now |-> 0, scraped |-> EmptyDict,
     merged |-> EmptyDict, installed |-> {}, forced |-> FALSE, failure |-> FALSE,
     caller |-> "none", repeat |-> FALSE, afterFailure |-> FALSE]

Init ==
    /\ clock \in StartClocks
    /\ weekday0 \in StartWeekdays
    /\ manual \in ManualChoices
    /\ jobs = {}
    /\ inflight = {}
    /\ started = FALSE
    /\ run = [pc |-> "boot", today |-> 0, caller |-> "none", start |-> 0]
    /\ scene \in {SCENE_DEFAULT, SCENE_PRAYER}
    /\ gen = 0
    /\ firelog = <<>>
    /\ pendingAtStart = {}
    /\ sceneAtStart = scene
    /\ firedAtStart = {}
    /\ cyc = NoCycle
    /\ actFailed = FALSE
    /\ owed = {}
    /\ conv = NoCall

\* lines 194-202: schedule_today up to the call of scrape_iqama_times
BeginCycle(js, caller) ==
    /\ jobs' = ClearPrayerJobs(js)
    /\ run' = [pc |-> "scraping", today |-> DateOf(clock), caller |-> caller,
               start |-> clock]
    /\ gen' = gen + 1
    /\ firelog' = <<>>
    /\ pendingAtStart' = {j \in js : j.trigger = "date"}
    /\ sceneAtStart' = scene
    /\ firedAtStart' = {firelog[i].id : i \in 1..Len(firelog)}

\* lines 294-315: main adds the two cron jobs and calls schedule_today
Main ==
    /\ run.pc = "boot"
    /\ BeginCycle(AddJob(AddJob(jobs, CronJob(<<"daily", "refresh">>, DAILY_REFRESH)),
                         CronJob(<<"midday", "refresh">>, MIDDAY_REFRESH)), "main")
    /\ UNCHANGED <<clock, weekday0, manual, inflight, started, scene, cyc, actFailed, owed, conv>>

DueDateJobs == {j \in jobs : j.trigger = "date" /\ j.run <= clock}
DueCronJobs == {j \in jobs : j.trigger = "cron" /\ j.run <= clock}
\* the jobs whose run time the clock still has to reach
Awaited == {j \in jobs : j.run > clock /\ (j.trigger = "cron" => gen < MaxCycles)}

\* the scheduler runs a due cron job: schedule_today starts in a worker thread.
\* The date jobs due at the same instant leave the store in the same pass and
\* are handed to other worker threads, which run beside schedule_today.
CronFire(j) ==
    /\ started /\ run.pc = "idle"
    /\ gen < MaxCycles
    /\ j \in DueCronJobs
    /\ BeginCycle(((jobs \ DueDateJobs) \ {j})
                      \cup {[j EXCEPT !.run = NextCron(j.hm, clock)]}, "cron")
    /\ inflight' = inflight \cup DueDateJobs
    /\ UNCHANGED <<clock, weekday0, manual, started, scene, cyc, actFailed, owed, conv>>

\* a date job whose switch_scene call failed is kept in the store and run again
Fire_RetryOnFailure(j, ok) ==
    /\ started
    /\ j \in DueDateJobs
    /\ jobs' = IF ok THEN jobs \ {j} ELSE jobs
    /\ scene' = SwitchScene(scene, SceneOf(j.func), ok)
    /\ actFailed' = (actFailed \/ ~ok)
    /\ firelog' = Append(firelog, [id |-> j.id, run |-> j.run, func |-> j.func,
                                   gen |-> j.gen, cur |-> gen, at |-> clock,
                                   pc |-> run.pc])
    /\ owed' = {}
    /\ UNCHANGED <<clock, weekday0, manual, inflight, started, run, gen,
                   pendingAtStart, sceneAtStart, firedAtStart, cyc, conv>>
\* the scheduler runs a due date job once and drops it from the store
Fire(j, ok) ==
    /\ started
    /\ j \in DueDateJobs
    /\ jobs' = jobs \ {j}
    /\ scene' = SwitchScene(scene, SceneOf(j.func), ok)
    /\ actFailed' = (actFailed \/ ~ok)
    /\ firelog' = Append(firelog, [id |-> j.id, run |-> j.run, func |-> j.func,
                                   gen |-> j.gen, cur |-> gen, at |-> clock,
                                   pc |-> run.pc])
    /\ owed' = IF actFailed \/ ~ok THEN {}
               ELSE IF j.func = "switch_to_prayer" THEN owed \cup {Deadline(j)}
               ELSE {}
    /\ UNCHANGED <<clock, weekday0, manual, inflight, started, run, gen,
                   pendingAtStart, sceneAtStart, firedAtStart, cyc, conv>>

\* a worker thread runs a date job that was handed over beside schedule_today
Exec(j, ok) ==
    /\ j \in inflight
    /\ inflight' = inflight \ {j}
    /\ scene' = SwitchScene(scene, SceneOf(j.func), ok)
    /\ actFailed' = (actFailed \/ ~ok)
    /\ firelog' = Append(firelog, [id |-> j.id, run |-> j.run, func |-> j.func,
                                   gen |-> j.gen, cur |-> gen, at |-> clock,
                                   pc |-> run.pc])
    /\ owed' = IF actFailed \/ ~ok THEN {}
               ELSE IF j.func = "switch_to_prayer" THEN owed \cup {Deadline(j)}
               ELSE {}
    /\ UNCHANGED <<clock, weekday0, manual, jobs, started, run, gen,
                   pendingAtStart, sceneAtStart, firedAtStart, cyc, conv>>

\* scheduler.start(): pending cron jobs get their first run time
StartJobs(js) ==
    {IF j.trigger = "cron" THEN [j EXCEPT !.run = NextCron(j.hm, clock)] ELSE j : j \in js}

\* lines 205-277: the scrape returns, schedule_today runs to its end; when the
\* caller is main, scheduler.start() follows (line 320)
ScrapeDone(scraped, ok) ==
    /\ run.pc = "scraping"
    /\ LET iqama_times == Merge(scraped, manual)
           is_friday == IsFriday(run.today)
           now == clock
           new == Installed(run.today, is_friday, now, iqama_times, gen)
           after == AddJobs(jobs, new)
       IN  /\ NoTimes(iqama_times) => ok
           /\ jobs' = IF run.caller = "main" THEN StartJobs(after) ELSE after
           /\ scene' = IF NoTimes(iqama_times) THEN scene
                       ELSE SwitchScene(scene, SCENE_DEFAULT, ok)
           /\ actFailed' = (actFailed \/ ~ok)
           /\ cyc' = [n |-> cyc.n + 1, today |-> run.today, friday |-> is_friday,
                      now |-> now, scraped |-> scraped, merged |-> iqama_times,
                      installed |-> new, forced |-> ~NoTimes(iqama_times),
                      failure |-> NoTimes(iqama_times), caller |-> run.caller,
                      repeat |-> /\ cyc.n > 0 /\ scraped = cyc.scraped
                                 /\ run.today = cyc.today
                                 /\ \A t \in WindowStarts(run.today, is_friday, iqama_times) :
                                        ~(cyc.now < t /\ t <= now),
                      afterFailure |-> cyc.failure]
           /\ owed' = IF actFailed \/ ~ok \/ ~NoTimes(iqama_times) THEN {} ELSE owed
           /\ run' = [run EXCEPT !.pc = ReturnPc(iqama_times)]
           /\ started' = (started \/ ReturnPc(iqama_times) = "idle")
    /\ UNCHANGED <<clock, weekday0, manual, inflight, gen, firelog, pendingAtStart,
                   sceneAtStart, firedAtStart, conv>>

\* time passes to the next instant at which something can happen
Advance ==
    /\ run.pc \in {"idle", "scraping"}
    /\ inflight = {}
    /\ started => DueDateJobs = {}
    /\ (started /\ run.pc = "idle" /\ gen < MaxCycles) => DueCronJobs = {}
    /\ run.pc = "scraping" => clock < run.start + MaxScrapeMinutes
    /\ LET next == {j.run : j \in Awaited}
                   \cup (IF run.pc = "scraping" THEN {clock + 1} ELSE {})
       IN  /\ next # {}
           /\ clock' = Min(next)
    /\ UNCHANGED <<weekday0, manual, jobs, inflight, started, run, scene, gen, firelog,
                   pendingAtStart, sceneAtStart, firedAtStart, cyc, actFailed, owed, conv>>

Next ==
    \/ Main
    \/ \E j \in jobs : CronFire(j)
    \/ \E j \in jobs, ok \in BOOLEAN : Fire(j, ok)
    \/ \E j \in inflight, ok \in BOOLEAN : Exec(j, ok)
    \/ \E scraped \in ScrapeResults, ok \in BOOLEAN : ScrapeDone(scraped, ok)
    \/ Advance

Spec == Init /\ [][Next]_vars

\* ---- convert_to_24h called on its own ------------------------------------
InitConv ==
    /\ conv \in Calls
    /\ clock = 0 /\ weekday0 = 0 /\ manual = EmptyDict /\ jobs = {} /\ inflight = {}
    /\ started = FALSE
    /\ run = [pc |-> "boot", today |-> 0, caller |-> "none", start |-> 0]
    /\ scene = SCENE_DEFAULT /\ gen = 0 /\ firelog = <<>>
    /\ pendingAtStart = {} /\ sceneAtStart = SCENE_DEFAULT /\ firedAtStart = {}
    /\ cyc = NoCycle /\ actFailed = FALSE /\ owed = {}

Convert ==
    /\ conv.pc = "call"
    /\ conv' = [conv EXCEPT !.pc = "done", !.out = convert_to_24h(conv.text)]
    /\ UNCHANGED <<clock, weekday0, manual, jobs, inflight, started, run, scene, gen,
                   firelog, pendingAtStart, sceneAtStart, firedAtStart, cyc, actFailed,
                   owed>>

NextConv == Convert

SpecConv == InitConv /\ [][NextConv]_vars

\* ---- vocabulary of the properties ---------------------------------------
HasJob(S, id, t, f) == \E j \in S : j.id = id /\ j.run = t /\ j.func = f
Fired(j) == \E i \in 1..Len(firelog) : firelog[i].id = j.id /\ firelog[i].run = j.run
IsEventJob(j, prayer) == j.id[1] = "prayer" /\ j.id[3] = prayer
\* e is the enter-special-state job of the window that r closes
PairOf(e, r) ==
    /\ e.id[1] = r.id[1] /\ e.id[2] = "start" /\ r.id[2] = "end"
    /\ Tail(Tail(e.id)) = Tail(Tail(r.id))
\* a run of schedule_today has completed and no later one is in progress
CycleDone == cyc.n > 0 /\ cyc.n = gen /\ run.pc = "idle"
JumuahAhead == cyc.friday /\ DateTime(cyc.today, JUMUAH_START) > cyc.now
\* the candidate mapping after the override removal
Candidates == {p \in DOMAIN cyc.merged : ~(cyc.friday /\ p = "Dhuhr")}
EventTime(p) == DateTime(cyc.today, cyc.merged[p])

\* C1: every completed run of schedule_today has invoked switch_to_default,
\* also a run that found no iqama times at all.
C1_EveryCycleForcesDefault == cyc.n > 0 => cyc.forced

\* C2: a run on a Friday with 13:25 still ahead installs the Jumu'ah enter at
\* 13:25 and the restore at 14:15, whatever the scrape and the manual dict gave.
C2_JumuahAlwaysInstalled ==
    (cyc.n > 0 /\ JumuahAhead) =>
        /\ HasJob(cyc.installed, <<"jumuah", "start">>,
                  DateTime(cyc.today, JUMUAH_START), "switch_to_prayer")
        /\ HasJob(cyc.installed, <<"jumuah", "end">>,
                  DateTime(cyc.today, JUMUAH_END), "switch_to_default")

\* C3: generation replacement.  While a cycle resolves times no prayer/Jumu'ah
\* job is in the store (the old ones went before any new one came); every such
\* job in the store belongs to the latest generation; a job that runs once a
\* generation is installed belongs to that generation; no job fires twice, and
\* a fired job is no longer pending.
C3_GenerationReplacement ==
    /\ run.pc = "scraping" => \A j \in jobs : ~IsPrayerJob(j)
    /\ \A j \in jobs : IsPrayerJob(j) => j.gen = gen
    /\ \A i \in 1..Len(firelog) :
          /\ firelog[i].pc = "idle" => firelog[i].gen = firelog[i].cur
          /\ \A k \in 1..Len(firelog) :
                (firelog[k].id = firelog[i].id /\ firelog[k].gen = firelog[i].gen) => k = i
          /\ \A j \in jobs : ~(j.id = firelog[i].id /\ j.gen = firelog[i].gen)

\* C4: a job pending when a cron-triggered cycle starts, whose run time comes
\* while the cycle is still scraping, is fired at that time (or is just due).
C4_PendingFiresDuringScrape ==
    \A j \in pendingAtStart :
        (run.pc = "scraping" /\ run.caller = "cron" /\ j.run <= clock)
            => (j \in jobs \/ Fired(j))

\* C5: a restore whose enter has fired and that is pending when a refresh runs
\* survives the refresh when the source reports the same time again: until its
\* run time it is still pending and the scene is still the prayer scene.
C5_CommittedRestoreKept ==
    \A r \in pendingAtStart :
        ( /\ CycleDone /\ cyc.caller = "cron"
          /\ r.id[1] = "prayer" /\ r.id[2] = "end"
          /\ <<"prayer", "start", r.id[3]>> \in firedAtStart
          /\ r.id[3] \in DOMAIN cyc.scraped
          /\ DateTime(cyc.today, cyc.scraped[r.id[3]]) + PRAYER_DURATION_MINUTES = r.run
          /\ sceneAtStart = SCENE_PRAYER /\ ~actFailed
          /\ clock < r.run )
        => /\ HasJob(jobs, r.id, r.run, r.func)
           /\ scene = SCENE_PRAYER

\* C6: among the jobs one cycle installs, no restore falls strictly inside
\* another window (between another enter and its own restore).
C6_ConflictFree ==
    \A r \in cyc.installed, e \in cyc.installed, r2 \in cyc.installed :
        (r.func = "switch_to_default" /\ PairOf(e, r2) /\ r # r2)
            => ~(e.run < r.run /\ r.run < r2.run)

\* C7: a cycle run on a Friday installs no prayer_start_Dhuhr / prayer_end_Dhuhr
\* job, whatever time the scrape or the manual dict gives for Dhuhr, and while
\* a Friday cycle is the latest one the store holds no such job.
C7_OverridePrecedence ==
    /\ (cyc.n > 0 /\ cyc.friday) => \A j \in cyc.installed : ~IsEventJob(j, "Dhuhr")
    /\ (run.pc # "boot" /\ IsFriday(run.today)) => \A j \in jobs : ~IsEventJob(j, "Dhuhr")
C7_Witness ==
    /\ CycleDone /\ JumuahAhead
    /\ "Dhuhr" \in DOMAIN cyc.merged /\ EventTime("Dhuhr") > cyc.now
    /\ HasJob(jobs, <<"jumuah", "start">>, DateTime(cyc.today, JUMUAH_START),
              "switch_to_prayer")

\* C8: an event (or the Jumu'ah window) whose time is at or before the cycle's
\* now gets no job at all; every installed job lies after now, and no enter
\* that fires was scheduled for a time already passed.
C8_PastDueDrop ==
    cyc.n > 0 =>
        /\ \A p \in DOMAIN cyc.merged :
              EventTime(p) <= cyc.now => \A j \in cyc.installed : ~IsEventJob(j, p)
        /\ DateTime(cyc.today, JUMUAH_START) <= cyc.now =>
              \A j \in cyc.installed : j.id[1] # "jumuah"
        /\ \A j \in cyc.installed : j.run > cyc.now
        /\ \A i \in 1..Len(firelog) :
              (firelog[i].func = "switch_to_prayer" /\ firelog[i].gen = cyc.n)
                  => firelog[i].run > cyc.now
C8_Witness ==
    /\ CycleDone
    /\ \E p \in Candidates : EventTime(p) <= cyc.now
    /\ \E q \in Candidates : EventTime(q) > cyc.now
    /\ \E i \in 1..Len(firelog) : firelog[i].func = "switch_to_prayer"

\* C9: the candidate mapping has, for every name, the scraped time when there
\* is one and the manual time otherwise; with an empty scrape the installed
\* jobs are those of a cycle whose candidate mapping is the manual dict.
C9_MergePrecedence ==
    cyc.n > 0 =>
        /\ DOMAIN cyc.merged = DOMAIN cyc.scraped \cup DOMAIN manual
        /\ \A p \in DOMAIN cyc.merged :
              cyc.merged[p] = IF p \in DOMAIN cyc.scraped THEN cyc.scraped[p] ELSE manual[p]
        /\ NoTimes(cyc.scraped) =>
              cyc.installed = Installed(cyc.today, cyc.friday, cyc.now, manual, cyc.n)
C9_Witness ==
    /\ CycleDone
    /\ \E p \in DOMAIN cyc.scraped \cap DOMAIN manual : cyc.scraped[p] # manual[p]
    /\ \E q \in DOMAIN manual : q \notin DOMAIN cyc.scraped
    /\ cyc.installed # {}

\* C10: with N candidates after the override removal, N > 0, and now before
\* every one of them, a cycle installs exactly 2*N jobs, and 2 more when it is
\* Friday and 13:25 is still ahead.
C10_ActionCount ==
    (cyc.n > 0 /\ Candidates # {} /\ \A p \in Candidates : cyc.now < EventTime(p))
        => Cardinality(cyc.installed)
              = 2 * Cardinality(Candidates) + (IF JumuahAhead THEN 2 ELSE 0)
C10_Witness ==
    /\ CycleDone /\ JumuahAhead
    /\ Cardinality(Candidates) >= 2
    /\ "Dhuhr" \in DOMAIN cyc.merged
    /\ \A p \in Candidates : cyc.now < EventTime(p)

DateJobsIn(js) == {j \in js : j.trigger = "date"}
CronJobsIn(js) == {j \in js : j.trigger = "cron"}
\* the pending (action kind, fire time) entries of a job store
Entries(js) == {<<j.func, j.run>> : j \in DateJobsIn(js)}
\* the event a date job belongs to: a prayer name, or the Jumu'ah window
EventOf(j) == IF j.id[1] = "jumuah" THEN "jumuah" ELSE j.id[3]

\* C11: a cycle that repeats the previous one (same day, same scraped and
\* manual times, and no window start passed between the two readings of now)
\* leaves the store with the same (kind, fire time) entries the previous one
\* left, and with as many jobs: nothing doubled, nothing left over.
C11_IdempotentReplanning ==
    (CycleDone /\ cyc.repeat /\ clock = cyc.now /\ firelog = <<>>) =>
        /\ Entries(jobs) = Entries(pendingAtStart)
        /\ Cardinality(DateJobsIn(jobs)) = Cardinality(pendingAtStart)
C11_Witness ==
    /\ CycleDone /\ cyc.repeat /\ clock = cyc.now /\ firelog = <<>>
    /\ cyc.caller = "cron" /\ cyc.installed # {}
    /\ Cardinality(pendingAtStart) >= 2

\* C12: once main has added them, daily_refresh (00:05) and midday_refresh
\* (12:00) are in the store in every state, as the only cron jobs, each still
\* calling schedule_today at its own time of day.
CronPresent(id, hm) ==
    \E j \in jobs :
        /\ j.id = id /\ j.trigger = "cron" /\ j.hm = hm /\ j.func = "schedule_today"
        /\ started => j.run % MinutesPerDay = Minutes(hm)
C12_TriggersAlwaysPresent ==
    run.pc # "boot" =>
        /\ CronPresent(<<"daily", "refresh">>, DAILY_REFRESH)
        /\ CronPresent(<<"midday", "refresh">>, MIDDAY_REFRESH)
        /\ Cardinality(CronJobsIn(jobs)) = 2
C12_Witness ==
    /\ gen >= 2 /\ CycleDone /\ cyc.failure
    /\ firedAtStart # {}

\* C13: a cycle that finds no times returns: schedule_today is idle again, the
\* scheduler is (or gets) started, nothing was installed, both triggers wait
\* for a later time; and the cycle a trigger runs after such a failure installs
\* the pair of every candidate that is still ahead.
C13_FailureNotFatal ==
    /\ (cyc.n > 0 /\ cyc.n = gen /\ cyc.failure) =>
          /\ run.pc = "idle" /\ started /\ cyc.installed = {}
          /\ \A j \in CronJobsIn(jobs) : j.run > cyc.now
          /\ Cardinality(CronJobsIn(jobs)) = 2
    /\ (cyc.n > 0 /\ cyc.afterFailure) =>
          /\ cyc.caller = "cron"
          /\ \A p \in Candidates : EventTime(p) > cyc.now =>
                /\ HasJob(cyc.installed, <<"prayer", "start", p>>, EventTime(p),
                          "switch_to_prayer")
                /\ HasJob(cyc.installed, <<"prayer", "end", p>>,
                          EventTime(p) + PRAYER_DURATION_MINUTES, "switch_to_default")
C13_Witness ==
    /\ CycleDone /\ cyc.afterFailure /\ ~cyc.failure
    /\ \E p \in Candidates : EventTime(p) > cyc.now
    /\ Len(firelog) > 0

\* C14: the step in which a switch_scene call fails leaves the scene as it
\* was, does not stop schedule_today or the scheduler, keeps both triggers,
\* and changes the pending jobs exactly as a successful call would have: the
\* job that ran is gone (it is not kept for a retry), every other job stays.
C14_ActuationFailureAbsorbed ==
    [][ (~actFailed /\ actFailed') =>
          /\ scene' = scene
          /\ started'
          /\ run'.pc = "idle" \/ run' = run
          /\ {<<j.id, j.hm>> : j \in CronJobsIn(jobs')} = {<<j.id, j.hm>> : j \in CronJobsIn(jobs)}
          /\ IF run' = run
             THEN \/ \E j \in DueDateJobs : jobs' = jobs \ {j} /\ inflight' = inflight
                  \/ \E j \in inflight : inflight' = inflight \ {j} /\ jobs' = jobs
             ELSE DateJobsIn(jobs') = DateJobsIn(jobs) \cup cyc'.installed
      ]_vars
C14_Witness ==
    /\ gen = 1 /\ actFailed
    /\ sceneAtStart = SCENE_DEFAULT /\ scene = SCENE_PRAYER
    /\ Len(firelog) = 1

\* C15: while a cycle is between its clear and the end of its install, no
\* date job runs.
C15_AtomicReplacement == [][run.pc = "scraping" => firelog' = firelog]_vars

\* C17: as long as no switch_scene call has failed, the clock never passes the
\* restore deadline of a fired enter while the scene has not been default since.
C17_BoundedSpecialState == ~actFailed => \A d \in owed : clock <= d

\* C18: every pending enter job has its restore job pending too: for a prayer
\* 10 minutes later, for the Jumu'ah window at 14:15.
C18_Pairing ==
    \A e \in DateJobsIn(jobs) :
        e.func = "switch_to_prayer" =>
            \E r \in jobs : /\ PairOf(e, r) /\ r.func = "switch_to_default"
                            /\ r.run = Deadline(e)
C18_Witness ==
    /\ CycleDone
    /\ \E e \in jobs : e.id = <<"jumuah", "start">>
    /\ \E e \in jobs : e.id[1] = "prayer" /\ e.id[2] = "start"
    /\ \E r \in jobs : /\ r.id[1] = "prayer" /\ r.id[2] = "end"
                       /\ ~\E e \in jobs : PairOf(e, r)

\* C19: the store never holds two pending enter jobs, or two pending restore
\* jobs, of the same event.
C19_UniquePending ==
    \A j1 \in DateJobsIn(jobs), j2 \in DateJobsIn(jobs) :
        (j1.func = j2.func /\ EventOf(j1) = EventOf(j2)) => j1 = j2
C19_Witness ==
    /\ gen >= 2 /\ CycleDone
    /\ \E j \in jobs, o \in pendingAtStart :
          /\ j.id = o.id /\ j.id[2] = "start" /\ j.run # o.run

\* C16: for a text H:MM + AM/PM (nothing after the marker) the result is a
\* value exactly when H is in 1..12 and MM in 00..59, and then it is 00:MM for
\* 12 AM, 12:MM for 12 PM, H:MM for other AM hours and (H+12):MM for other PM
\* hours; any other text gives no value; a value has hour 0..23, minute 0..59.
WellFormedText ==
    /\ Len(conv.parts.h) \in {1, 2} /\ conv.parts.sep = <<":">>
    /\ Len(conv.parts.m) = 2 /\ conv.parts.marker \in Markers
    /\ conv.parts.trail = <<>>
Valid12h ==
    /\ WellFormedText
    /\ IntOf(conv.parts.h) \in 1..12 /\ IntOf(conv.parts.m) \in 0..59
Expected24h ==
    LET H == IntOf(conv.parts.h)
        am == conv.parts.marker \in {<<"A", "M">>, <<"a", "m">>}
    IN  Pad2(IF am THEN (IF H = 12 THEN 0 ELSE H) ELSE (IF H = 12 THEN 12 ELSE H + 12))
        \o <<":">> \o conv.parts.m
C16_TimeParsing ==
    conv.pc = "done" =>
        /\ IF Valid12h THEN conv.out = Expected24h ELSE conv.out = NoValue
        /\ conv.out # NoValue =>
              /\ IntOf(SubSeq(conv.out, 1, 2)) \in 0..23
              /\ IntOf(SubSeq(conv.out, 4, 5)) \in 0..59
====
